---- MODULE Spec2Model ----
(***************************************************************************)
(* A model of the career chatbot: configuration and startup checks         *)
(* (config/settings.py, app.py), the Pushover notification client          *)
(* (notifications/pushover_client.py), the callback tools and their        *)
(* dispatch (tools/function_tools.py) and the conversation loop            *)
(* (ai_agent/agent.py).                                                    *)
(*                                                                         *)
(* Representation of Python data:                                          *)
(*  - configuration strings, tool names, call identifiers and titles are   *)
(*    TLA+ strings; None is the value PyNone;                              *)
(*  - every other Python str (message texts, prompt, JSON texts) is a      *)
(*    sequence of chunks whose concatenation is the string, so that        *)
(*    "contains" and "ends with" can be stated; the empty str is << >>;    *)
(*  - a dict/list/str/bool/None value that goes through json is a record   *)
(*    [t, s, m]: t its type, s the chunks of a str, m the members of a     *)
(*    dict (a sequence of <<key, value>> in insertion order) or the items  *)
(*    of a list;                                                           *)
(*  - a call that may raise returns a record with a field raised, the      *)
(*    exception's class name, "" when it returned.                         *)
(*                                                                         *)
(* A local value that is used several times is bound as                    *)
(*     CHOOSE out \in {e(v) : v \in {value}} : TRUE                         *)
(* (or \E v \in {value} : ... in an action), which is e(value) and has the *)
(* model checker compute the value once.                                   *)
(***************************************************************************)
EXTENDS Integers, Sequences, FiniteSets, TLC

\* ------------------------------------------------------------------------
\* Python values
\* ------------------------------------------------------------------------
PyNone == "<None>"

\* bool(v) of an Optional[str]
Truthy(v) == v # PyNone /\ v # ""

\* a or b
PyOr(a, b) == IF Truthy(a) THEN a ELSE b

JStr(s) == [t |-> "str", s |-> s, m |-> <<>>]
JObj(m) == [t |-> "obj", s |-> <<>>, m |-> m]
JArr(m) == [t |-> "arr", s |-> <<>>, m |-> m]
JBool(b) == [t |-> "bool", s |-> IF b THEN <<"true">> ELSE <<"false">>, m |-> <<>>]
JNull == [t |-> "null", s |-> <<"null">>, m |-> <<>>]

\* a one-chunk str value
S(x) == JStr(<<x>>)

\* the keys of a dict, and the value under a key that is present
Keys(d) == {d.m[i][1] : i \in 1..Len(d.m)}
Get(d, k) == d.m[CHOOSE i \in 1..Len(d.m) : d.m[i][1] = k][2]

\* d[k] = v : an existing key keeps its position, a new one goes last
PutKey(m, k, v) ==
    IF \E i \in 1..Len(m) : m[i][1] = k
    THEN [i \in 1..Len(m) |-> IF m[i][1] = k THEN <<k, v>> ELSE m[i]]
    ELSE Append(m, <<k, v>>)

\* ------------------------------------------------------------------------
\* json.dumps / json.loads  (the standard library, on chunked texts)
\* ------------------------------------------------------------------------
RECURSIVE json_dumps(_), DumpItems(_, _), DumpMembers(_, _)

DumpItems(items, i) ==
    IF i > Len(items) THEN <<>>
    ELSE (IF i > 1 THEN <<", ">> ELSE <<>>)
         \o json_dumps(items[i]) \o DumpItems(items, i + 1)

DumpMembers(m, i) ==
    IF i > Len(m) THEN <<>>
    ELSE (IF i > 1 THEN <<", ">> ELSE <<>>)
         \o <<"\"">> \o m[i][1] \o <<"\"", ": ">>
         \o json_dumps(m[i][2]) \o DumpMembers(m, i + 1)

json_dumps(v) ==
    CASE v.t = "str" -> <<"\"">> \o v.s \o <<"\"">>
      [] v.t = "obj" -> <<"{">> \o DumpMembers(v.m, 1) \o <<"}">>
      [] v.t = "arr" -> <<"[">> \o DumpItems(v.m, 1) \o <<"]">>
      [] OTHER -> v.s

ParseFail == [ok |-> FALSE, val |-> JNull, rest |-> <<>>]
ParseOk(v, rest) == [ok |-> TRUE, val |-> v, rest |-> rest]

\* the chunks of a string up to its closing quote
RECURSIVE ParseChunks(_, _)
ParseChunks(toks, acc) ==
    IF toks = <<>> THEN ParseFail
    ELSE IF Head(toks) = "\"" THEN ParseOk(JStr(acc), Tail(toks))
    ELSE ParseChunks(Tail(toks), Append(acc, Head(toks)))

RECURSIVE ParseValue(_), ParseItems(_, _), ParseMembers(_, _), ParseMember(_, _)

ParseValue(toks) ==
    IF toks = <<>> THEN ParseFail
    ELSE LET h == Head(toks)
             r == Tail(toks)
         IN CASE h = "\"" -> ParseChunks(r, <<>>)
              [] h = "{" -> IF r # <<>> /\ Head(r) = "}"
                            THEN ParseOk(JObj(<<>>), Tail(r))
                            ELSE ParseMembers(r, <<>>)
              [] h = "[" -> IF r # <<>> /\ Head(r) = "]"
                            THEN ParseOk(JArr(<<>>), Tail(r))
                            ELSE ParseItems(r, <<>>)
              [] h = "true" -> ParseOk(JBool(TRUE), r)
              [] h = "false" -> ParseOk(JBool(FALSE), r)
              [] h = "null" -> ParseOk(JNull, r)
              [] OTHER -> ParseFail

ParseItems(toks, acc) ==
    CHOOSE out \in
        {IF ~v.ok \/ v.rest = <<>> THEN ParseFail
         ELSE IF Head(v.rest) = "]"
              THEN ParseOk(JArr(Append(acc, v.val)), Tail(v.rest))
         ELSE IF Head(v.rest) \in {",", ", "}
              THEN ParseItems(Tail(v.rest), Append(acc, v.val))
         ELSE ParseFail : v \in {ParseValue(toks)}} : TRUE

\* the member value after the key k, and the members after it
ParseMember(k, acc) ==
    CHOOSE out \in
        {IF ~v.ok \/ v.rest = <<>> THEN ParseFail
         ELSE IF Head(v.rest) = "}"
              THEN ParseOk(JObj(PutKey(acc, k.val.s, v.val)), Tail(v.rest))
         ELSE IF Head(v.rest) \in {",", ", "}
              THEN ParseMembers(Tail(v.rest), PutKey(acc, k.val.s, v.val))
         ELSE ParseFail : v \in {ParseValue(Tail(k.rest))}} : TRUE

ParseMembers(toks, acc) ==
    IF toks = <<>> \/ Head(toks) # "\"" THEN ParseFail
    ELSE CHOOSE out \in
             {IF ~k.ok \/ k.rest = <<>> \/ Head(k.rest) \notin {":", ": "}
              THEN ParseFail
              ELSE ParseMember(k, acc) : k \in {ParseChunks(Tail(toks), <<>>)}} : TRUE

json_loads(text) ==
    CHOOSE out \in
        {IF r.ok /\ r.rest = <<>>
         THEN [raised |-> "", value |-> r.val]
         ELSE [raised |-> "JSONDecodeError", value |-> JNull]
           : r \in {ParseValue(text)}} : TRUE

\* ------------------------------------------------------------------------
\* config/settings.py
\* ------------------------------------------------------------------------
\* os.getenv of an optional variable: unset (None), set to the empty string,
\* or set to a value
EnvValues(v) == {PyNone, "", v}

\* Config._load_settings, from the environment env
load_settings(env) ==
    [openai_api_key    |-> env.OPENAI_API_KEY,
     openai_model      |-> "gpt-4o-mini",
     pushover_token    |-> env.PUSHOVER_TOKEN,
     pushover_user     |-> env.PUSHOVER_USER,
     agent_name        |-> "Ankur Warikoo",
     linkedin_pdf_path |-> "me/Ankur Warikoo.pdf",
     summary_file_path |-> "me/summary.txt"]

\* all(var is not None for var in [self.openai_api_key])
validate_config(cfg) == cfg.openai_api_key # PyNone

\* the names appended when "not self.openai_api_key"
get_missing_config(cfg) ==
    IF ~Truthy(cfg.openai_api_key) THEN <<"OPENAI_API_KEY">> ELSE <<>>

has_notifications(cfg) ==
    cfg.pushover_token # PyNone /\ cfg.pushover_user # PyNone

\* ------------------------------------------------------------------------
\* notifications/pushover_client.py
\* ------------------------------------------------------------------------
PUSHOVER_TIMEOUT == 10

\* PushoverClient(): token and user default to None, so "x or config.x"
PushoverClient(cfg) ==
    [token   |-> PyOr(PyNone, cfg.pushover_token),
     user    |-> PyOr(PyNone, cfg.pushover_user),
     api_url |-> "https://api.pushover.net/1/messages.json"]

\* What the network does with one requests.post: exc is the exception
\* requests.post raises ("" when a response arrives), status the response's
\* status code.
NetOutcomes ==
    {[exc |-> "", status |-> c] : c \in {200, 304, 404, 500}}
    \cup {[exc |-> e, status |-> 0] : e \in {"ConnectionError", "Timeout"}}

\* the subclasses of requests.RequestException that occur
RequestException == {"ConnectionError", "Timeout", "HTTPError"}

\* Response.raise_for_status: HTTPError for a 4xx or 5xx status
raise_for_status(status) ==
    IF 400 <= status /\ status < 600 THEN "HTTPError" ELSE ""

\* send_notification: ret is the returned bool, posts the outbound requests
\* it performed
send_notification_isNone(self, message, title, net) ==
    IF self.token = PyNone \/ self.user = PyNone
    THEN [raised |-> "", ret |-> TRUE, posts |-> <<>>,
          message |-> message, title |-> title]
    ELSE [raised  |-> "",
          ret     |-> net.exc = "" /\ raise_for_status(net.status) = "",
          posts   |-> <<[url |-> self.api_url,
                         data |-> [token |-> self.token, user |-> self.user,
                                   message |-> message, title |-> title],
                         timeout |-> PUSHOVER_TIMEOUT]>>,
          message |-> message,
          title   |-> title]

send_notification(self, message, title, net) ==
    IF ~Truthy(self.token) \/ ~Truthy(self.user)
    THEN [raised |-> "", ret |-> TRUE, posts |-> <<>>,
          message |-> message, title |-> title]
    ELSE LET data == [token   |-> self.token,
                      user    |-> self.user,
                      message |-> message,
                      title   |-> IF Truthy(title) THEN title ELSE PyNone]
             post == [url |-> self.api_url, data |-> data,
                      timeout |-> PUSHOVER_TIMEOUT]
             exc  == IF net.exc # "" THEN net.exc
                     ELSE raise_for_status(net.status)
         IN [raised  |-> IF exc \in RequestException THEN "" ELSE exc,
             ret     |-> exc = "",
             posts   |-> <<post>>,
             message |-> message,
             title   |-> title]

send_user_registration(self, name, email, notes, net) ==
    LET message == <<"New user registration: ">> \o name \o <<" (">>
                   \o email \o <<")">>
                   \o (IF notes # <<>> THEN <<" - Notes: ">> \o notes ELSE <<>>)
    IN send_notification(self, message, "User Registration", net)

send_unknown_question(self, question, net) ==
    send_notification(self, <<"Unknown question recorded: ">> \o question,
                      "Unknown Question", net)

\* ------------------------------------------------------------------------
\* tools/function_tools.py
\* ------------------------------------------------------------------------
Recorded == JObj(<< << <<"recorded">>, S("ok") >> >>)
ErrorResult(msg) == JObj(<< << <<"error">>, JStr(msg) >> >>)

\* a call of a Python callable: the exception it raised or the value it
\* returned, and the notifications it sent
Raised(e, msg, notifs) ==
    [raised |-> e, msg |-> msg, value |-> JNull, notifs |-> notifs]
Returned(v, notifs) ==
    [raised |-> "", msg |-> <<>>, value |-> v, notifs |-> notifs]

record_user_details(email, name, notes, client, net) ==
    CHOOSE out \in
        {IF n.raised # "" THEN Raised(n.raised, <<n.raised>>, <<n>>)
         ELSE Returned(Recorded, <<n>>)
           : n \in {send_user_registration(client, name, email, notes, net)}} : TRUE

record_unknown_question(question, client, net) ==
    CHOOSE out \in
        {IF n.raised # "" THEN Raised(n.raised, <<n.raised>>, <<n>>)
         ELSE Returned(Recorded, <<n>>)
           : n \in {send_unknown_question(client, question, net)}} : TRUE

StringProp(description) ==
    JObj(<< << <<"type">>, S("string") >>,
            << <<"description">>, S(description) >> >>)

ToolSchema(name, description, properties, required) ==
    JObj(<< << <<"type">>, S("function") >>,
            << <<"function">>,
               JObj(<< << <<"name">>, S(name) >>,
                       << <<"description">>, S(description) >>,
                       << <<"parameters">>,
                          JObj(<< << <<"type">>, S("object") >>,
                                  << <<"properties">>, JObj(properties) >>,
                                  << <<"required">>, JArr(required) >>,
                                  << <<"additionalProperties">>, JBool(FALSE) >> >>) >> >>) >> >>)

get_tool_definitions ==
    JArr(<<
      ToolSchema("record_user_details",
        "Use this tool to record that a user is interested in being in touch and provided an email address",
        << << <<"email">>, StringProp("The email address of this user") >>,
           << <<"name">>, StringProp("The user's name, if they provided it") >>,
           << <<"notes">>, StringProp("Any additional information about the conversation that's worth recording to give context") >> >>,
        << S("email") >>),
      ToolSchema("record_unknown_question",
        "Always use this tool to record any question that couldn't be answered as you didn't know the answer",
        << << <<"question">>, StringProp("The question that couldn't be answered") >> >>,
        << S("question") >>)
    >>)

\* globals() of tools/function_tools.py: the imported names, the module's
\* functions and the module attributes, each with the kind of object bound
ModuleGlobals ==
    "json" :> "module" @@ "Dict" :> "typing" @@ "Any" :> "typing"
    @@ "List" :> "typing" @@ "notification_client" :> "PushoverClient"
    @@ "record_user_details" :> "function"
    @@ "record_unknown_question" :> "function"
    @@ "get_tool_definitions" :> "function"
    @@ "handle_tool_calls" :> "function"
    @@ "__name__" :> "str" @@ "__doc__" :> "str" @@ "__file__" :> "str"
    @@ "__builtins__" :> "dict"

\* globals().get(tool_name)
globals_get(tool_name) ==
    IF tool_name \in DOMAIN ModuleGlobals THEN ModuleGlobals[tool_name]
    ELSE PyNone

\* type(v).__name__
PyType(v) ==
    CASE v.t = "obj" -> "dict" [] v.t = "arr" -> "list" [] v.t = "str" -> "str"
      [] v.t = "bool" -> "bool" [] OTHER -> "NoneType"

\* the first keyword of arguments that is no parameter
FirstUnexpected(arguments, params) ==
    arguments.m[CHOOSE i \in 1..Len(arguments.m) :
                    /\ arguments.m[i][1] \notin params
                    /\ \A j \in 1..(i - 1) : arguments.m[j][1] \in params][1]

\* binding **arguments to a function's parameters: the TypeError raised, or ""
BindError(name, arguments, params, required) ==
    IF ~(Keys(arguments) \subseteq params)
    THEN <<name, "() got an unexpected keyword argument '">>
         \o FirstUnexpected(arguments, params) \o <<"'">>
    ELSE IF ~(required \subseteq Keys(arguments))
    THEN <<name, "() missing required positional argument">>
    ELSE <<>>

\* arguments[k] if given, else the parameter's default
Arg(arguments, k, default) ==
    IF k \in Keys(arguments) THEN Get(arguments, k).s ELSE default

\* the for loop of handle_tool_calls over a value decoded from JSON: no item
\* of such a value has an attribute "function"
IterateDecoded(v) ==
    IF v.t \in {"bool", "null"}
    THEN Raised("TypeError", <<"'", PyType(v), "' object is not iterable">>, <<>>)
    ELSE IF (v.t = "str" /\ v.s = <<>>) \/ (v.t # "str" /\ v.m = <<>>)
    THEN Returned(JArr(<<>>), <<>>)
    ELSE Raised("AttributeError",
                <<"object has no attribute 'function'">>, <<>>)

\* tool_function(**arguments), tool_function the object bound to tool_name
CallGlobal(tool_name, arguments, client, net) ==
    LET kind == globals_get(tool_name)
    IN IF arguments.t # "obj"
       THEN Raised("TypeError",
                   <<"argument after ** must be a mapping, not ",
                     PyType(arguments)>>, <<>>)
       ELSE IF kind = "typing"
       THEN Raised("TypeError", <<"Type ", tool_name, " cannot be instantiated">>, <<>>)
       ELSE IF kind # "function"
       THEN Raised("TypeError", <<"'", kind, "' object is not callable">>, <<>>)
       ELSE LET params ==
                    CASE tool_name = "record_user_details" ->
                             {<<"email">>, <<"name">>, <<"notes">>}
                      [] tool_name = "record_unknown_question" -> {<<"question">>}
                      [] tool_name = "handle_tool_calls" -> {<<"tool_calls">>}
                      [] OTHER -> {}
                required ==
                    CASE tool_name = "record_user_details" -> {<<"email">>}
                      [] tool_name = "get_tool_definitions" -> {}
                      [] OTHER -> params
                err == BindError(tool_name, arguments, params, required)
            IN IF err # <<>> THEN Raised("TypeError", err, <<>>)
               ELSE CASE tool_name = "record_user_details" ->
                             record_user_details(
                                 Arg(arguments, <<"email">>, <<>>),
                                 Arg(arguments, <<"name">>, <<"Name not provided">>),
                                 Arg(arguments, <<"notes">>, <<"not provided">>),
                                 client, net)
                      [] tool_name = "record_unknown_question" ->
                             record_unknown_question(
                                 Arg(arguments, <<"question">>, <<>>), client, net)
                      [] tool_name = "get_tool_definitions" ->
                             Returned(get_tool_definitions, <<>>)
                      [] OTHER -> IterateDecoded(Get(arguments, <<"tool_calls">>))

\* One pass of the loop body of handle_tool_calls on the call tool_call:
\* raised is the exception that leaves the loop, turn the dict appended to
\* results.
\* the dict appended to results for the call's result
ToolTurn(tool_call, result, notifs) ==
    [raised |-> "",
     result |-> result,
     turn   |-> [role         |-> "tool",
                 content      |-> json_dumps(result),
                 tool_call_id |-> tool_call.id],
     notifs |-> notifs]

DispatchCall(tool_call, client, net) ==
    CHOOSE out \in
        {IF loaded.raised # ""
         THEN [raised |-> loaded.raised, result |-> JNull, turn |-> <<>>,
               notifs |-> <<>>]
         ELSE IF globals_get(tool_call.name) # PyNone
         THEN CHOOSE o \in
                  {ToolTurn(tool_call,
                            IF called.raised # "" THEN ErrorResult(called.msg)
                            ELSE called.value,
                            called.notifs)
                     : called \in {CallGlobal(tool_call.name, loaded.value,
                                              client, net)}} : TRUE
         ELSE ToolTurn(tool_call,
                       ErrorResult(<<"Tool ", tool_call.name, " not found">>),
                       <<>>)
           : loaded \in {json_loads(tool_call.arguments)}} : TRUE

\* handle_tool_calls(tool_calls); nets[i] is what the network does with the
\* notification of the i-th call.  notifs are the notifications sent, also
\* those sent before an exception left the loop.
RECURSIVE HandleFrom(_, _, _, _, _, _)
HandleFrom(tool_calls, i, results, notifs, client, nets) ==
    IF i > Len(tool_calls)
    THEN [raised |-> "", results |-> results, notifs |-> notifs]
    ELSE CHOOSE out \in
             {IF d.raised # ""
              THEN [raised |-> d.raised, results |-> <<>>, notifs |-> notifs]
              ELSE HandleFrom(tool_calls, i + 1, Append(results, d.turn),
                              notifs \o d.notifs, client, nets)
                : d \in {DispatchCall(tool_calls[i], client, nets[i])}} : TRUE

handle_tool_calls(tool_calls, client, nets) ==
    HandleFrom(tool_calls, 1, <<>>, <<>>, client, nets)

\* ------------------------------------------------------------------------
\* ai_agent/agent.py
\* ------------------------------------------------------------------------
\* A file of the file system: whether the path exists, whether reading it
\* succeeds (PdfReader / open / read raise otherwise), and its text: the
\* page texts of the profile document, the single text of the summary.
MissingFile == [exists |-> FALSE, readable |-> FALSE, texts |-> <<>>]
UnreadableFile == [exists |-> TRUE, readable |-> FALSE, texts |-> <<>>]
PdfFiles ==
    {MissingFile, UnreadableFile,
     [exists |-> TRUE, readable |-> TRUE,
      texts |-> << <<"Founder and teacher. ">>, <<>>, <<"Experience: ...">> >>]}
SummaryFiles ==
    {MissingFile, UnreadableFile,
     [exists |-> TRUE, readable |-> TRUE, texts |-> << <<"I am an entrepreneur.">> >>]}

\* linkedin_content += text, for each page whose text is not empty
RECURSIVE ConcatPages(_, _)
ConcatPages(pages, i) ==
    IF i > Len(pages) THEN <<>>
    ELSE (IF pages[i] # <<>> THEN pages[i] ELSE <<>>) \o ConcatPages(pages, i + 1)

\* _extract_linkedin_content: an exception of the reader is caught and the
\* content stays empty
extract_linkedin_content(pdf) ==
    IF pdf.exists /\ pdf.readable THEN ConcatPages(pdf.texts, 1) ELSE <<>>

\* AIAgent(): name, tools and _load_background_info
AIAgent(cfg, fs) ==
    [name             |-> PyOr(PyNone, cfg.agent_name),
     tools            |-> get_tool_definitions,
     linkedin_content |-> extract_linkedin_content(fs.pdf),
     summary          |-> IF fs.summary.exists /\ fs.summary.readable
                          THEN fs.summary.texts[1] ELSE <<>>]

NoAgent == [name |-> PyNone, tools |-> JNull, linkedin_content |-> <<>>,
            summary |-> <<>>]

get_system_prompt(self) ==
    <<"You are acting as ", self.name,
      ". You are answering questions on ", self.name,
      "'s website, particularly questions related to ", self.name,
      "'s career, background, skills and experience. Your responsibility is to represent ",
      self.name,
      " for interactions on the website as faithfully as possible. You are given a summary of ",
      self.name,
      "'s background and LinkedIn profile which you can use to answer questions. Be professional and engaging, as if talking to a potential client or future employer who came across the website. If you don't know the answer to any question, use your record_unknown_question tool to record the question that you couldn't answer, even if it's about something trivial or unrelated to career. If the user is engaging in discussion, try to steer them towards getting in touch via email; ask for their email and record it using your record_user_details tool.",
      "\n\n## Summary:\n">> \o self.summary
    \o <<"\n\n## LinkedIn Profile:\n">> \o self.linkedin_content \o <<"\n\n">>
    \o <<"With this context, please chat with the user, always staying in character as ",
         self.name, ".">>

APOLOGY ==
    <<"I apologize, but I encountered an error processing your request. Please try again.">>

\* chat: the message list built before the loop
BuildMessages(self, message, hist) ==
    <<[role |-> "system", content |-> get_system_prompt(self)]>>
    \o hist \o <<[role |-> "user", content |-> message]>>

\* The list objects of a chat call: the one the caller passed as history and
\* the one the call creates; NoList before any call.
HistoryList == "history"
NewList == "new"
NoList == "none"

\* [system] + history + [user]: + on lists returns a new list object, whatever
\* its operands
list_add_inplace(operands) == CHOOSE o \in operands : TRUE

list_add(operands) == NewList

\* the contents of the list object obj after an in-place change (append,
\* extend) of the object target from old contents to new contents
ContentsAfter(obj, target, old, new) == IF obj = target THEN new ELSE old

\* messages.append(message); messages.extend(tool_results)
ExtendMessages_swapped(msgs, message, tool_results) ==
    msgs \o tool_results \o <<message>>

ExtendMessages(msgs, message, tool_results) ==
    Append(msgs, message) \o tool_results

\* The outcome of one pass of the loop of _process_conversation:
\*   returned: the loop is left;  value: what chat returns then;
\*   raised: the exception that leaves chat ("" when none does);
\*   messages: the list after the pass;  results: the tool results of the
\*   pass;  notifs: the notifications sent during the pass.
\* the except clause: the error is printed and the apology returned
Apologize_reraise(msgs, ns) ==
    [returned |-> TRUE, value |-> <<>>, messages |-> msgs, notifs |-> ns,
     results |-> <<>>, raised |-> "Exception"]

Apologize(msgs, ns) ==
    [returned |-> TRUE, value |-> APOLOGY, messages |-> msgs, notifs |-> ns,
     results |-> <<>>, raised |-> ""]

\* done = True, and after the loop: return response.choices[0].message.content
FinalAnswer_stopOnly(msgs, resp) ==
    [returned |-> TRUE,
     value |-> IF resp.finish_reason = "stop" THEN resp.content ELSE <<>>,
     messages |-> msgs, notifs |-> <<>>, results |-> <<>>, raised |-> ""]

FinalAnswer(msgs, resp) ==
    [returned |-> TRUE, value |-> resp.content, messages |-> msgs,
     notifs |-> <<>>, results |-> <<>>, raised |-> ""]

\* One pass of the loop on the endpoint's answer resp to the request that
\* carried msgs.  resp.exc is the exception raised by the request ("" when a
\* response object arrived), resp.choices the number of choices of the
\* response, resp.has_tool_calls whether message.tool_calls is a list (it is
\* None otherwise).
LoopPass(msgs, resp, client, nets) ==
    IF resp.exc # "" THEN Apologize(msgs, <<>>)
    ELSE IF resp.choices = 0 THEN Apologize(msgs, <<>>)
    ELSE IF resp.finish_reason = "tool_calls"
    THEN IF ~resp.has_tool_calls THEN Apologize(msgs, <<>>)
         ELSE CHOOSE out \in
                  {IF handled.raised # "" THEN Apologize(msgs, handled.notifs)
                   ELSE [returned |-> FALSE, value |-> <<>>,
                         messages |-> ExtendMessages(
                                          msgs,
                                          [role |-> "assistant",
                                           content |-> resp.content,
                                           tool_calls |-> resp.tool_calls],
                                          handled.results),
                         notifs   |-> handled.notifs,
                         results  |-> handled.results,
                         raised   |-> ""]
                     : handled \in {handle_tool_calls(resp.tool_calls,
                                                      client, nets)}} : TRUE
    ELSE FinalAnswer(msgs, resp)

\* ------------------------------------------------------------------------
\* app.py
\* ------------------------------------------------------------------------
\* validate_environment: the names printed when validate_config fails
validate_environment(cfg) ==
    IF ~validate_config(cfg)
    THEN [ok |-> FALSE, missing_vars |-> get_missing_config(cfg)]
    ELSE [ok |-> TRUE, missing_vars |-> <<>>]

\* check_required_files: the paths that do not exist, in the order checked
check_required_files_skipped(cfg, fs) ==
    [ok |-> TRUE, missing_files |-> <<>>]

check_required_files(cfg, fs) ==
    LET missing_files ==
            (IF ~fs.pdf.exists THEN <<cfg.linkedin_pdf_path>> ELSE <<>>)
            \o (IF ~fs.summary.exists THEN <<cfg.summary_file_path>> ELSE <<>>)
    IN [ok |-> missing_files = <<>>, missing_files |-> missing_files]

\* what launch_web_app does once the agent is built: it serves, or raises
LaunchOutcomes == {"serving", "OSError"}

\* main(): the exit status (-1 while the process runs), what was listed, and
\* the agent built by launch_web_app
main(cfg, fs, launch) ==
    LET ve == validate_environment(cfg)
        cf == check_required_files(cfg, fs)
    IN IF ~ve.ok
       THEN [exit_code |-> 1, missing_vars |-> ve.missing_vars,
             missing_files |-> <<>>, files_checked |-> FALSE,
             launched |-> FALSE, agent |-> NoAgent]
       ELSE IF ~cf.ok
       THEN [exit_code |-> 1, missing_vars |-> <<>>,
             missing_files |-> cf.missing_files, files_checked |-> TRUE,
             launched |-> FALSE, agent |-> NoAgent]
       ELSE [exit_code |-> IF launch = "serving" THEN -1 ELSE 1,
             missing_vars |-> <<>>, missing_files |-> <<>>,
             files_checked |-> TRUE, launched |-> TRUE,
             agent |-> AIAgent(cfg, fs)]

\* ------------------------------------------------------------------------
\* Bounds and inputs
\* ------------------------------------------------------------------------
\* tool-call passes of one chat call (the loop itself has no bound)
MaxIter == 1
\* tool calls requested by one response
MaxCalls == 2
\* direct calls of a tool or of send_notification in the unit specification
MaxUnitCalls == 2

Environments ==
    [OPENAI_API_KEY : EnvValues("sk-key"),
     PUSHOVER_TOKEN : EnvValues("app-token"),
     PUSHOVER_USER  : EnvValues("user-key")]

FileSystems == [pdf : PdfFiles, summary : SummaryFiles]

Histories ==
    {<<>>,
     <<[role |-> "user", content |-> <<"Hi">>],
       [role |-> "assistant", content |-> <<"Hello, how can I help?">>]>>}

UserMessages == {<<"Tell me about your background">>, <<"How can I contact you?">>}

Obj1(k, v) == JObj(<< << <<k>>, S(v) >> >>)

\* argument texts the endpoint may send
EmailOnly == json_dumps(Obj1("email", "a@b.com"))
QuestionArgs == json_dumps(Obj1("question", "What is X?"))
Undecodable == <<"{", "\"", "email", "\"", ": ">>
ArgTexts ==
    {<<"{", "}">>, EmailOnly, QuestionArgs, Undecodable, <<"[", "]">>,
     json_dumps(JObj(<< << <<"email">>, S("a@b.com") >>,
                        << <<"name">>, S("Ann") >>,
                        << <<"notes">>, S("met at a talk") >> >>)),
     json_dumps(JObj(<< << <<"email">>, S("a@b.com") >>,
                        << <<"notes">>, JStr(<<>>) >> >>)),
     json_dumps(JObj(<< << <<"tool_calls">>, JArr(<<>>) >> >>)),
     json_dumps(JObj(<< << <<"tool_calls">>, JArr(<<S("x")>>) >> >>))}

RegisteredTools == {"record_user_details", "record_unknown_question"}
ToolNames == DOMAIN ModuleGlobals \cup {"lookup_weather", "record_contact"}

\* the calls a response of the conversation may request
ChatCalls ==
    {[id |-> "call_q", name |-> "record_unknown_question", arguments |-> QuestionArgs],
     [id |-> "call_w", name |-> "lookup_weather", arguments |-> <<"{", "}">>],
     [id |-> "call_e", name |-> "record_user_details", arguments |-> <<"{", "}">>],
     [id |-> "call_b", name |-> "record_unknown_question", arguments |-> Undecodable]}

Batches == UNION {[1..n -> ChatCalls] : n \in 0..MaxCalls}

Answers == {<<"I founded a company.">>, <<"Please email me.">>}

NoCalls == <<>>

Response(exc, choices, finish, content, has, calls) ==
    [exc |-> exc, choices |-> choices, finish_reason |-> finish,
     content |-> content, has_tool_calls |-> has, tool_calls |-> calls]

\* the request raised; the response has no choice; the response announces
\* tool calls and carries none
FailedResponses ==
    {Response("APIConnectionError", 0, "", <<>>, FALSE, NoCalls),
     Response("", 0, "", <<>>, FALSE, NoCalls),
     Response("", 1, "tool_calls", <<>>, FALSE, NoCalls)}

FinalResponses ==
    {Response("", 1, "stop", a, FALSE, NoCalls) : a \in Answers}
    \cup {Response("", 1, "length", <<"I founded">>, FALSE, NoCalls)}

ToolCallResponse(calls) == Response("", 1, "tool_calls", <<>>, TRUE, calls)

NoResponse == Response("", 0, "none", <<>>, FALSE, NoCalls)

\* ------------------------------------------------------------------------
\* State
\* ------------------------------------------------------------------------
VARIABLES
    env,                  \* the process environment (after load_dotenv)
    fs,                   \* the two background files
    config,               \* config.settings.config
    notification_client,  \* notifications.notification_client
    phase,                \* "start", "exited" or "serving"
    boot,                 \* what main() did
    pc,                   \* of the chat call: "idle", "waiting", "returned"
    history,              \* the history argument of the chat call
    caller_history,       \* the contents of the caller's history list now
    messages_id,          \* the list object the local name messages denotes
    user_message,         \* the caller's message
    messages,             \* the list local to the chat call
    request,              \* the message list of the latest model request
    nreq,                 \* model requests sent by the chat call
    response,             \* the latest answer of the model endpoint
    pass,                 \* the outcome of the latest pass of the loop
    reply,                \* what chat returned
    unit,                 \* the latest direct call of a tool or of notify
    ncalls,               \* direct calls made
    sent                  \* outbound notification requests of direct calls

envVars == <<env, fs, config, notification_client>>
procVars == <<phase, boot>>
chatVars == <<pc, history, caller_history, messages_id, user_message,
              messages, request, nreq, response, pass, reply>>
unitVars == <<unit, ncalls, sent>>
vars == <<envVars, procVars, chatVars, unitVars>>

NoBoot == [exit_code |-> -1, missing_vars |-> <<>>, missing_files |-> <<>>,
           files_checked |-> FALSE, launched |-> FALSE, agent |-> NoAgent]
NoPass == [returned |-> FALSE, value |-> <<>>, messages |-> <<>>,
           notifs |-> <<>>, results |-> <<>>, raised |-> ""]
NoUnit == [op |-> "none"]

\* the modules are imported: config and notification_client exist
Imported(e, f) ==
    /\ env = e
    /\ fs = f
    /\ config = load_settings(e)
    /\ notification_client = PushoverClient(load_settings(e))
    /\ pc = "idle"
    /\ history = <<>>
    /\ caller_history = <<>>
    /\ messages_id = NoList
    /\ user_message = <<>>
    /\ messages = <<>>
    /\ request = <<>>
    /\ nreq = 0
    /\ response = NoResponse
    /\ pass = NoPass
    /\ reply = <<>>
    /\ unit = NoUnit
    /\ ncalls = 0
    /\ sent = 0

\* the process is started in any environment
Init ==
    \E e \in Environments, f \in FileSystems :
        /\ Imported(e, f)
        /\ phase = "start"
        /\ boot = NoBoot

\* ------------------------------------------------------------------------
\* Actions
\* ------------------------------------------------------------------------
\* python app.py
Main ==
    /\ phase = "start"
    /\ \E launch \in LaunchOutcomes :
           /\ boot' = main(config, fs, launch)
           /\ phase' = IF boot'.exit_code = -1 THEN "serving" ELSE "exited"
    /\ UNCHANGED <<envVars, chatVars, unitVars>>

\* the front end calls agent.chat(message, history): the list is built and
\* the first request sent
Chat ==
    /\ phase = "serving"
    /\ pc # "waiting"
    /\ \E h \in Histories, m \in UserMessages :
           /\ history' = h
           /\ user_message' = m
           /\ messages' = BuildMessages(boot.agent, m, h)
           /\ request' = BuildMessages(boot.agent, m, h)
           /\ messages_id' = list_add({HistoryList})
           /\ caller_history' =
                  ContentsAfter(HistoryList, messages_id', h,
                                BuildMessages(boot.agent, m, h))
    /\ nreq' = 1
    /\ pc' = "waiting"
    /\ response' = NoResponse
    /\ pass' = NoPass
    /\ reply' = <<>>
    /\ UNCHANGED <<envVars, procVars, unitVars>>

\* the endpoint answers the request in flight with resp and the loop makes
\* one pass; net is what the network does with the notifications of the pass
Pass(resp, net) ==
    \E p \in {LoopPass(messages, resp, notification_client,
                       [i \in 1..Len(resp.tool_calls) |-> net])} :
       /\ response' = resp
       /\ pass' = p
       /\ messages' = p.messages
       /\ caller_history' =
              ContentsAfter(HistoryList, messages_id, caller_history,
                            p.messages)
       /\ IF p.returned
          THEN /\ pc' = "returned"
               /\ reply' = p.value
               /\ UNCHANGED <<request, nreq>>
          ELSE /\ pc' = "waiting"
               /\ request' = p.messages
               /\ nreq' = nreq + 1
               /\ UNCHANGED reply
       /\ UNCHANGED <<history, messages_id, user_message, envVars, procVars,
                      unitVars>>

EndpointFails ==
    /\ pc = "waiting"
    /\ \E resp \in FailedResponses : Pass(resp, CHOOSE n \in NetOutcomes : TRUE)

EndpointAnswers ==
    /\ pc = "waiting"
    /\ \E resp \in FinalResponses : Pass(resp, CHOOSE n \in NetOutcomes : TRUE)

EndpointRequestsTools(batches) ==
    /\ pc = "waiting"
    /\ nreq <= MaxIter
    /\ \E calls \in batches, net \in NetOutcomes :
           Pass(ToolCallResponse(calls), net)

\* a tool is dispatched on its own, as the first direct call
Dispatch ==
    /\ ncalls = 0
    /\ \E n \in ToolNames, a \in ArgTexts, net \in NetOutcomes :
           \E out \in {DispatchCall([id |-> "call_1", name |-> n, arguments |-> a],
                                    notification_client, net)} :
              /\ unit' = [op |-> "dispatch",
                          call |-> [id |-> "call_1", name |-> n, arguments |-> a],
                          net |-> net, out |-> out]
              /\ sent' = sent + (IF out.notifs = <<>> THEN 0
                                 ELSE Len(out.notifs[1].posts))
    /\ ncalls' = ncalls + 1
    /\ UNCHANGED <<envVars, procVars, chatVars>>

\* send_notification is called on its own
Notify ==
    /\ ncalls < MaxUnitCalls
    /\ \E t \in {"", "Unknown Question"}, net \in NetOutcomes :
           \E out \in {send_notification(notification_client, <<"ping">>, t, net)} :
              /\ unit' = [op |-> "notify", net |-> net, out |-> out]
              /\ sent' = sent + Len(out.posts)
    /\ ncalls' = ncalls + 1
    /\ UNCHANGED <<envVars, procVars, chatVars>>

\* the batches the whole-process specification draws from
SampleBatches ==
    {b \in Batches :
        \/ Len(b) = 1 /\ b[1].id \in {"call_q", "call_b"}
        \/ Len(b) = 2 /\ b[1].id = "call_w" /\ b[2].id = "call_e"}

Next ==
    \/ Main
    \/ Chat
    \/ EndpointFails
    \/ EndpointAnswers
    \/ EndpointRequestsTools(SampleBatches)

Spec == Init /\ [][Next]_vars

\* The conversation alone, in a process that serves
GoodFiles ==
    CHOOSE f \in FileSystems : f.pdf.readable /\ f.summary.readable

InitChat ==
    \E e \in Environments :
        /\ e.OPENAI_API_KEY = "sk-key"
        /\ Truthy(e.PUSHOVER_TOKEN) = Truthy(e.PUSHOVER_USER)
        /\ e.PUSHOVER_TOKEN # ""
        /\ e.PUSHOVER_USER # ""
        /\ Imported(e, GoodFiles)
        /\ phase = "serving"
        /\ boot = main(load_settings(e), GoodFiles, "serving")

NextChat ==
    \/ Chat
    \/ EndpointFails
    \/ EndpointAnswers
    \/ EndpointRequestsTools(Batches)

SpecChat == InitChat /\ [][NextChat]_vars

\* The tools and the notification client alone
InitTools ==
    \E e \in Environments :
        /\ e.OPENAI_API_KEY = "sk-key"
        /\ Imported(e, GoodFiles)
        /\ phase = "serving"
        /\ boot = main(load_settings(e), GoodFiles, "serving")

NextTools == Dispatch \/ Notify

SpecTools == InitTools /\ [][NextTools]_vars

\* ------------------------------------------------------------------------
\* Properties
\* ------------------------------------------------------------------------
Contains(text, chunk) == \E i \in 1..Len(text) : text[i] = chunk

\* both notification credentials are set and not empty
Configured == Truthy(config.pushover_token) /\ Truthy(config.pushover_user)

\* the endpoint's answer is a failure of the request or a malformed response
Failed(resp) ==
    \/ resp.exc # ""
    \/ resp.choices = 0
    \/ resp.finish_reason = "tool_calls" /\ ~resp.has_tool_calls

\* C1: the first model request of a chat call carries exactly
\* [system] + history + [user message]; every later request carries the
\* previous request's list as a prefix, then the assistant's tool-request turn,
\* then one tool-result turn per requested call in the order requested (the
\* list grows by 1 + n); a pass that returns sends no request.
C1_RequestLists ==
    [][/\ (pc # "waiting" /\ pc' = "waiting") =>
              /\ nreq' = 1
              /\ request' =
                     <<[role |-> "system",
                        content |-> get_system_prompt(boot'.agent)]>>
                     \o history'
                     \o <<[role |-> "user", content |-> user_message']>>
       /\ (pc = "waiting" /\ pc' = "waiting") =>
              LET calls == response'.tool_calls
                  n == Len(calls)
                  k == Len(request)
              IN /\ nreq' = nreq + 1
                 /\ Len(request') = k + 1 + n
                 /\ SubSeq(request', 1, k) = request
                 /\ request'[k + 1].role = "assistant"
                 /\ request'[k + 1].tool_calls = calls
                 /\ \A i \in 1..n :
                        /\ request'[k + 1 + i].role = "tool"
                        /\ request'[k + 1 + i].tool_call_id = calls[i].id
       /\ (pc = "waiting" /\ pc' = "returned") =>
              /\ nreq' = nreq
              /\ request' = request
      ]_vars

\* a second request was sent after a response that requested two calls, in a
\* conversation with earlier turns
C1_Witness ==
    /\ pc = "waiting"
    /\ nreq = 2
    /\ history # <<>>
    /\ Len(response.tool_calls) = 2
    /\ Len(request) = Len(history) + 5

\* C2: when the first response of a chat call is no tool-call request, chat
\* returns that response's content unchanged, having sent exactly one request,
\* run no tool and sent no notification.
C2_PlainAnswer ==
    [][(pc = "waiting" /\ nreq = 1 /\ ~Failed(response')
        /\ response'.finish_reason # "tool_calls") =>
           /\ pc' = "returned"
           /\ reply' = response'.content
           /\ nreq' = 1
           /\ request' = request
           /\ pass'.raised = ""
           /\ pass'.results = <<>>
           /\ pass'.notifs = <<>>
      ]_vars

C2_Witness ==
    /\ pc = "returned"
    /\ nreq = 1
    /\ response.finish_reason = "length"
    /\ reply = response.content
    /\ reply # <<>>

\* C3: after a response that requests the calls c1..cn, the pass has produced
\* n tool-result turns, the i-th with role "tool", the identifier of ci and a
\* JSON text as content, whatever the calls' names and argument texts.
C3_EveryCallGetsResult ==
    (pc # "idle" /\ response.finish_reason = "tool_calls"
     /\ response.has_tool_calls) =>
        /\ Len(pass.results) = Len(response.tool_calls)
        /\ \A i \in 1..Len(response.tool_calls) :
               /\ pass.results[i].role = "tool"
               /\ pass.results[i].tool_call_id = response.tool_calls[i].id
               /\ json_loads(pass.results[i].content).raised = ""

\* C4: the dispatch of a name that is none of the two registered tools, with
\* an argument text that decodes to an object, does not raise, yields the
\* result {"error": "Tool <name> not found"} and sends no notification.
C4_UnregisteredNotFound ==
    (unit.op = "dispatch" /\ unit.call.name \notin RegisteredTools
     /\ json_loads(unit.call.arguments).value.t = "obj") =>
        /\ unit.out.raised = ""
        /\ unit.out.result =
               ErrorResult(<<"Tool ", unit.call.name, " not found">>)
        /\ unit.out.notifs = <<>>

\* C5: record_user_details with only an email returns {"recorded": "ok"} and
\* sends one "User Registration" notification whose message contains the
\* email and "Name not provided" and no "Notes:" part.
C5_EmailOnlyHasNoNotes ==
    (unit.op = "dispatch" /\ unit.call.name = "record_user_details"
     /\ unit.call.arguments = EmailOnly) =>
        /\ unit.out.result = Recorded
        /\ Len(unit.out.notifs) = 1
        /\ unit.out.notifs[1].title = "User Registration"
        /\ Contains(unit.out.notifs[1].message, "a@b.com")
        /\ Contains(unit.out.notifs[1].message, "Name not provided")
        /\ ~Contains(unit.out.notifs[1].message, " - Notes: ")

C7_UnconfiguredNoOp ==
    ~Configured =>
        /\ sent = 0
        /\ unit.op = "notify" =>
               /\ unit.out.ret
               /\ unit.out.posts = <<>>
               /\ unit.out.raised = ""

\* send_notification was called twice with an empty token and a user key
C7_Witness ==
    /\ env.PUSHOVER_TOKEN = ""
    /\ env.PUSHOVER_USER = "user-key"
    /\ unit.op = "notify"
    /\ ncalls = 2

\* C8: with credentials configured a call of send_notification performs
\* exactly one outbound request, raises nothing, and returns False exactly
\* when the delivery failed: the request raised or the response's status is
\* not 2xx.
C8_FailureReportedFalse ==
    (unit.op = "notify" /\ Configured) =>
        /\ Len(unit.out.posts) = 1
        /\ unit.out.raised = ""
        /\ unit.out.ret <=>
               (unit.net.exc = "" /\ 200 <= unit.net.status
                /\ unit.net.status < 300)

\* C9: once main has run: with the API key unset the process has exited with
\* status 1, listing OPENAI_API_KEY, without checking files or launching;
\* with the key set and a path missing it has exited with status 1 listing
\* exactly the missing paths; the web interface was launched only with the key
\* present and both paths existing; and validate_config fails exactly when
\* get_missing_config lists something.
C9_StartupChecks ==
    phase # "start" =>
        /\ config.openai_api_key = PyNone =>
               /\ boot.exit_code = 1
               /\ Contains(boot.missing_vars, "OPENAI_API_KEY")
               /\ ~boot.files_checked
               /\ ~boot.launched
        /\ (config.openai_api_key # PyNone
            /\ (~fs.pdf.exists \/ ~fs.summary.exists)) =>
               /\ boot.exit_code = 1
               /\ ~boot.launched
               /\ boot.missing_files =
                      (IF fs.pdf.exists THEN <<>>
                       ELSE <<config.linkedin_pdf_path>>)
                      \o (IF fs.summary.exists THEN <<>>
                          ELSE <<config.summary_file_path>>)
        /\ boot.launched =>
               /\ config.openai_api_key # PyNone
               /\ fs.pdf.exists
               /\ fs.summary.exists
        /\ validate_config(config) <=> (get_missing_config(config) = <<>>)

C11_UnboundedLoop ==
    [][pc = "waiting" =>
           IF Failed(response') \/ response'.finish_reason # "tool_calls"
           THEN /\ pc' = "returned"
                /\ nreq' = nreq
                /\ request' = request
           ELSE /\ pc' = "waiting"
                /\ nreq' = nreq + 1
                /\ Len(request') > Len(request)
                /\ SubSeq(request', 1, Len(request)) = request
      ]_vars

\* C12: a chat call never changes the caller's history list. The list the
\* call works on is an object of its own, and from the call's start to its
\* return, whatever the responses, the number of tool passes or the failure,
\* the caller's list holds the turns it held when passed; the assistant and
\* tool-result turns go to the call's own list only, and the agent's profile
\* text and tool schemas stay as they were.
C12_HistoryUnchanged ==
    [][/\ pc' # "idle" =>
              /\ messages_id' # HistoryList
              /\ caller_history' = history'
       /\ pc = "waiting" =>
              /\ history' = history
              /\ caller_history' = caller_history
              /\ SubSeq(messages', 1, Len(messages)) = messages
       /\ pc' # "idle" =>
              /\ boot'.agent = boot.agent
              /\ boot'.agent.tools = get_tool_definitions
      ]_vars

\* a call with earlier turns has returned after a pass of two tool calls: its
\* own list has grown by the assistant turn and two tool results, the caller's
\* list has not
C12_Witness ==
    /\ pc = "returned"
    /\ nreq = 2
    /\ history # <<>>
    /\ Len(messages) = Len(history) + 5
    /\ Len(caller_history) = Len(history)
    /\ messages_id = NewList

====
